---- MODULE Spec2Model ----
(***************************************************************************)
(* autobar.py: the Waybar-per-monitor launcher for Hyprland.               *)
(*                                                                         *)
(* The model follows src/.config/waybar/scripts/autobar.py statement by    *)
(* statement.  The main thread's position is pc; a call of                 *)
(* start_waybar_for / stop_waybar_for keeps its return address in ret and  *)
(* its parameter in arg.  The signal handler _shutdown may interrupt the   *)
(* main thread between any two steps and never returns to it.  Waybar      *)
(* processes live in the environment: one may exit at any moment.          *)
(***************************************************************************)
EXTENDS Integers, Sequences, FiniteSets, TLC

\* ------------------------------------------------------------------ bounds

\* Popen handles one monitor can have in existence at once (one in the table,
\* the others leaked by a stop whose process outlived it).  A launch that
\* finds none free fails the way fork() does at the process limit.
MaxGen == 2
\* Longest list `hyprctl -j monitors` returns in the model.
MaxMons == 2
\* Longest list `hyprctl -j clients` returns in the model.
MaxClients == 2

\* range(20) in stop_waybar_for
WaitPolls == 20

\* ------------------------------------------------------------- value sets

\* Monitor names the enumerated hyprctl replies can produce.
Outputs == {"DP-1", "DP-2"}
\* Workspace ids the enumerated hyprctl replies carry.
WsIds == {1, 2}
\* An optional value: <<>> is Python's None / a missing key, <<v>> is v.
Opt(S) == {<<>>} \cup {<<v>> : v \in S}

NoMon == ""
\* A Popen handle is <<monitor it was launched for, instance number>>.
Handles == Outputs \X (1..MaxGen)
NoProc == <<"", 0>>

SeqsUpTo(S, n) == UNION {[1..k -> S] : k \in 0..n}

\* One element of the monitors reply.  "" is a missing or empty string.  The
\* replies enumerated always carry a name or a description.
MonitorRecords ==
    {m \in [name : {"", "DP-1", "DP-2"}, description : {"", "DP-2"},
            disabled : BOOLEAN, activeWorkspace : Opt(WsIds)] :
        m.name # "" \/ m.description # ""}
\* One element of the clients reply.
ClientRecords == [workspace : Opt(WsIds), mapped : BOOLEAN, hidden : BOOLEAN]

\* What run_json returns: ok = FALSE is None (the command failed or printed
\* no JSON), otherwise data is the parsed list.
FailedReply == [ok |-> FALSE, data |-> <<>>]
MonitorReplies ==
    {FailedReply} \cup {[ok |-> TRUE, data |-> l] : l \in SeqsUpTo(MonitorRecords, MaxMons)}
ClientReplies ==
    {FailedReply} \cup {[ok |-> TRUE, data |-> l] : l \in SeqsUpTo(ClientRecords, MaxClients)}

\* No answers held: the daemon draws each answer when it asks (GetMonitorsStep,
\* GetClientsStep), the compositor changing between any two polls.
NoProbe == [mons |-> FailedReply, clients |-> FailedReply]

\* What a file holds: "none" (no such file), "partial" (a prefix of the JSON
\* text) or "full" (json.dumps(content) for its monitor, include and output).
FileContents == {"none", "partial", "full"}
NoFiles == [mon \in Outputs |-> "none"]

\* ------------------------------------------------------------------ state

VARIABLES
    pc,         \* the statement the main thread (or the handler) is at
    ret,        \* where the running start/stop call returns to
    arg,        \* mon_name of the running start/stop call
    p,          \* the local p of the running start/stop call
    i,          \* completed iterations of stop's wait loop (0 outside it)
    procs,      \* the dict procs, in insertion order: <<[mon, p], ...>>
    alive,      \* handles whose process is running (poll() is None)
    sigs,       \* running processes that were sent SIGTERM or SIGKILL
    needed,     \* reconcile's local needed
    wsByMon,    \* monitors_needing_waybar's local ws_by_mon
    stopList,   \* what is left of list(procs.keys()) in reconcile
    startLeft,  \* what is left of the iteration over needed
    sweepList,  \* what is left of list(procs.items())
    shList,     \* what is left of list(procs.keys()) in _shutdown
    cyc,        \* history of the running cycle (not program state)
    sc,         \* history of the running stop call (not program state)
    probe,      \* the two hyprctl answers monitors_needing_waybar is called on (SpecNeed)
    countsByWs, \* monitors_needing_waybar's local counts_by_ws
    cfg,        \* content of each monitor's waybar-<mon>.jsonc in the cache directory
    tmp,        \* what the running call has written to its waybar-<mon>.tmp
    hist        \* whether cyc records the failed queries (not program state)

vars == <<pc, ret, arg, p, i, procs, alive, sigs, needed, wsByMon,
          stopList, startLeft, sweepList, shList, cyc, sc,
          probe, countsByWs, cfg, tmp, hist>>

\* ------------------------------------------------------- the dict procs

\* list(procs.keys())
Keys(t) == [k \in 1..Len(t) |-> t[k].mon]
KeySet(t) == {t[k].mon : k \in 1..Len(t)}
\* mon in procs
Has(t, mon) == \E k \in 1..Len(t) : t[k].mon = mon
\* procs[mon]
Get(t, mon) == t[CHOOSE k \in 1..Len(t) : t[k].mon = mon].p
\* procs.pop(mon, None)
Pop(t, mon) == SelectSeq(t, LAMBDA e : e.mon # mon)
\* procs[mon] = q
Put(t, mon, q) ==
    IF Has(t, mon)
    THEN [k \in 1..Len(t) |-> IF t[k].mon = mon THEN [mon |-> mon, p |-> q] ELSE t[k]]
    ELSE Append(t, [mon |-> mon, p |-> q])
\* Entries the dict holds for mon.
Entries(t, mon) == Cardinality({k \in 1..Len(t) : t[k].mon = mon})

\* --------------------------------------------------------------- probing

\* get_monitors: [] on failure or an empty reply, else the non-disabled ones.
GetMonitors(r) ==
    IF ~r.ok \/ r.data = <<>> THEN <<>>
    ELSE SelectSeq(r.data, LAMBDA m : ~m.disabled)

\* get_clients: [] on failure or an empty reply, else the reply.
GetClients(r) == IF ~r.ok \/ r.data = <<>> THEN <<>> ELSE r.data

\* m.get("name") or m.get("description") or str(m.get("id")); the records
\* carry no id, and str(None) is "None".
MonName(m) ==
    IF m.name # "" THEN m.name
    ELSE IF m.description # "" THEN m.description
    ELSE "None"

\* d[k] = v
DictSet(d, k, v) == [x \in DOMAIN d \cup {k} |-> IF x = k THEN v ELSE d[x]]
\* d.get(k, 0)
DictGet0(d, k) == IF k \in DOMAIN d THEN d[k] ELSE 0
EmptyDict == [x \in {} |-> 0]

\* The loop building ws_by_mon.
RECURSIVE WsByMon(_, _)
WsByMon(mons, acc) ==
    IF mons = <<>> THEN acc
    ELSE LET m == Head(mons)
             aw == m.activeWorkspace
             name == MonName(m)
         IN  WsByMon(Tail(mons),
                     IF aw # <<>> /\ name # "" THEN DictSet(acc, name, aw[1]) ELSE acc)

\* The loop building counts_by_ws.
RECURSIVE CountsByWs(_, _)
CountsByWs(clients, acc) ==
    IF clients = <<>> THEN acc
    ELSE LET c == Head(clients)
         IN  CountsByWs(Tail(clients),
                        IF c.workspace = <<>> THEN acc
                        ELSE IF ~c.mapped THEN acc
                        ELSE IF c.hidden THEN acc
                        ELSE DictSet(acc, c.workspace[1], DictGet0(acc, c.workspace[1]) + 1))

\* (variant) the count not tested: every monitor with an active workspace
Need_NoCountTest(ws_by_mon, counts_by_ws) == DOMAIN ws_by_mon

\* The loop building need.
Need(ws_by_mon, counts_by_ws) ==
    {mon \in DOMAIN ws_by_mon : DictGet0(counts_by_ws, ws_by_mon[mon]) > 0}

\* monitors_needing_waybar on the two replies.
MonitorsNeedingWaybar(rm, rc) ==
    Need(WsByMon(GetMonitors(rm), EmptyDict), CountsByWs(GetClients(rc), EmptyDict))

\* Every ws_by_mon the enumerated monitors replies lead to, and every
\* counts_by_ws the enumerated clients replies lead to (each set is evaluated
\* once: it depends on no state).
WsByMonOutcomes == {WsByMon(GetMonitors(r), EmptyDict) : r \in MonitorReplies}
CountsByWsOutcomes == {CountsByWs(GetClients(r), EmptyDict) : r \in ClientReplies}

\* ------------------------------------------------------------- histories

NewCycle(t, al) ==
    [keys0    |-> KeySet(t),                                   \* table keys at the cycle's start
     dead0    |-> {t[k].p : k \in {j \in 1..Len(t) : t[j].p \notin al}},  \* entries already exited then
     stopInv  |-> {},        \* monitors reconcile called stop for
     startInv |-> {},        \* monitors reconcile called start for
     launched |-> {},        \* monitors a Popen succeeded for
     swept    |-> {},        \* monitors the sweep removed
     exc      |-> "none",    \* where the cycle's exception came from
     failed   |-> NoMon,     \* the monitor whose start raised
     qfail    |-> {},        \* the queries for which run_json returned None
     afterFail |-> FALSE]    \* the cycle before had a failed query and returned
NoCycle == NewCycle(<<>>, {})

\* term, kill: "no" (not called), "ok" (returned) or "raised"; last: what the
\* latest poll() saw; wait: "no", "broke" (the loop saw the process gone) or
\* "full" (all WaitPolls iterations ran).
NewStop == [term |-> "no", kill |-> "no", last |-> "none", wait |-> "no"]

\* ------------------------------------------------------------------ init

Init ==
    /\ pc = "preflight"
    /\ ret = ""
    /\ arg = NoMon
    /\ p = NoProc
    /\ i = 0
    /\ procs = <<>>
    /\ alive = {}
    /\ sigs = {}
    /\ needed = {}
    /\ wsByMon = EmptyDict
    /\ stopList = <<>>
    /\ startLeft = {}
    /\ sweepList = <<>>
    /\ shList = <<>>
    /\ cyc = NoCycle
    /\ sc = NewStop
    /\ probe = NoProbe
    /\ countsByWs = EmptyDict
    /\ cfg = NoFiles
    /\ tmp = "none"
    /\ hist = FALSE

\* ------------------------------------------------------------ call frames

\* return from start_waybar_for / stop_waybar_for
Return ==
    /\ pc' = ret
    /\ ret' = ""
    /\ arg' = NoMon
    /\ p' = NoProc
    /\ i' = 0
    /\ sc' = NewStop

\* (variant) no except clause: the exception ends the process
ExceptTarget_Crash == "crashed"

\* main's `except Exception:` clause: the statement an exception that leaves
\* reconcile() lands on.
ExceptTarget == "backoff"

\* An exception leaves the running call and reconcile(); a call made outside
\* the loop gets it back itself.
Raise(kind) ==
    /\ pc' = IF ret = "idle" THEN "idle" ELSE ExceptTarget
    /\ cyc' = [cyc EXCEPT !.exc = kind, !.failed = arg]
    /\ ret' = ""
    /\ arg' = NoMon
    /\ p' = NoProc
    /\ i' = 0
    /\ sc' = NewStop
    /\ wsByMon' = EmptyDict
    /\ stopList' = <<>>
    /\ startLeft' = {}
    /\ sweepList' = <<>>

\* stop_waybar_for(mon), returning to r
CallStop(mon, r) ==
    /\ pc' = "stop_get"
    /\ ret' = r
    /\ arg' = mon
    /\ p' = NoProc
    /\ i' = 0
    /\ sc' = NewStop

\* start_waybar_for(mon), returning to r
CallStart(mon, r) ==
    /\ pc' = "start_check"
    /\ ret' = r
    /\ arg' = mon
    /\ p' = NoProc
    /\ i' = 0
    /\ sc' = NewStop

\* ------------------------------------------------------------------ main

\* while True: try: reconcile()
BeginCycle ==
    /\ pc' = "get_monitors"
    /\ cyc' = [NewCycle(procs, alive) EXCEPT !.afterFail = (cyc.qfail # {} /\ cyc.exc = "none")]
    /\ needed' = {}

\* (variant) the check made inside the loop, after reconcile() has run
Preflight_CheckLate ==
    /\ \/ /\ pc = "sleep"
          /\ pc' = "no_base"
          /\ UNCHANGED <<cyc, needed>>
       \/ /\ pc = "preflight"
          /\ BeginCycle
    /\ UNCHANGED <<ret, arg, p, i, procs, alive, sigs, wsByMon,
                   stopList, startLeft, sweepList, shList, sc>>
    /\ UNCHANGED <<probe, countsByWs, cfg, tmp, hist>>

\* if not BASE_CONFIG.exists(): print(...); return       ("no_base" is main
\* having printed its message and returned)
Preflight ==
    /\ pc = "preflight"
    /\ \/ /\ pc' = "no_base"
          /\ UNCHANGED <<cyc, needed>>
       \/ BeginCycle
    /\ UNCHANGED <<ret, arg, p, i, procs, alive, sigs, wsByMon,
                   stopList, startLeft, sweepList, shList, sc>>
    /\ UNCHANGED <<probe, countsByWs, cfg, tmp, hist>>

\* except Exception: time.sleep(1.0)
Backoff ==
    /\ pc = "backoff"
    /\ pc' = "sleep"
    /\ UNCHANGED <<ret, arg, p, i, procs, alive, sigs, needed, wsByMon,
                   stopList, startLeft, sweepList, shList, cyc, sc>>
    /\ UNCHANGED <<probe, countsByWs, cfg, tmp, hist>>

\* time.sleep(POLL_INTERVAL_SEC), then the next iteration
Sleep ==
    /\ pc = "sleep"
    /\ BeginCycle
    /\ UNCHANGED <<ret, arg, p, i, procs, alive, sigs, wsByMon,
                   stopList, startLeft, sweepList, shList, sc>>
    /\ UNCHANGED <<probe, countsByWs, cfg, tmp, hist>>

\* -------------------------------------------------------------- reconcile

\* (variant) the start loop written before the stop loop
ReconcilePhases_StartFirst == <<"rec_start", "rec_stop", "rec_sweep">>

\* The order of reconcile's three loops.
ReconcilePhases == <<"rec_stop", "rec_start", "rec_sweep">>
PhaseIndex(ph) == CHOOSE n \in 1..Len(ReconcilePhases) : ReconcilePhases[n] = ph

\* (variant) the start loop run over every output: for mon_name in all outputs
EnterPhase_StartAll(n, need) ==
    LET ph == IF n <= Len(ReconcilePhases) THEN ReconcilePhases[n] ELSE "sleep"
    IN  /\ pc' = ph
        /\ stopList' = IF ph = "rec_stop" THEN Keys(procs) ELSE <<>>
        /\ startLeft' = IF ph = "rec_start" THEN Outputs ELSE {}
        /\ sweepList' = IF ph = "rec_sweep" THEN procs ELSE <<>>

\* Enter reconcile's n-th loop, evaluating what it iterates over; past the
\* last loop reconcile returns to main's sleep.
EnterPhase(n, need) ==
    LET ph == IF n <= Len(ReconcilePhases) THEN ReconcilePhases[n] ELSE "sleep"
    IN  /\ pc' = ph
        /\ stopList' = IF ph = "rec_stop" THEN Keys(procs) ELSE <<>>
        /\ startLeft' = IF ph = "rec_start" THEN need ELSE {}
        /\ sweepList' = IF ph = "rec_sweep" THEN procs ELSE <<>>

\* mons = get_monitors(), and ws_by_mon, which depends on mons alone (the
\* code builds it after get_clients(); an exception of that loop is raised
\* there, in NeedMalformed)
GetMonitorsStep ==
    /\ pc = "get_monitors"
    /\ \E w \in WsByMonOutcomes, failed \in BOOLEAN :
          /\ failed => w = WsByMon(GetMonitors(FailedReply), EmptyDict)
          /\ wsByMon' = w
          /\ cyc' = [cyc EXCEPT !.qfail = IF failed /\ hist THEN @ \cup {"monitors"} ELSE @]
    /\ pc' = "get_clients"
    /\ UNCHANGED <<ret, arg, p, i, procs, alive, sigs, needed,
                   stopList, startLeft, sweepList, shList, sc>>
    /\ UNCHANGED <<probe, countsByWs, cfg, tmp, hist>>

\* clients = get_clients(), counts_by_ws, need; reconcile's first loop begins
GetClientsStep ==
    /\ pc = "get_clients"
    /\ \E c \in CountsByWsOutcomes, failed \in BOOLEAN :
          /\ failed => c = CountsByWs(GetClients(FailedReply), EmptyDict)
          /\ needed' = Need(wsByMon, c)
          /\ cyc' = [cyc EXCEPT !.qfail = IF failed /\ hist THEN @ \cup {"clients"} ELSE @]
    /\ wsByMon' = EmptyDict
    /\ EnterPhase(1, needed')
    /\ UNCHANGED <<ret, arg, p, i, procs, alive, sigs, shList, sc>>
    /\ UNCHANGED <<probe, countsByWs, cfg, tmp, hist>>

\* The monitors reply is JSON of another shape (an element that is no
\* object): m.get("disabled") raises inside get_monitors, before the clients
\* query, and the exception leaves reconcile().
ProbeMalformed ==
    /\ pc = "get_monitors"
    /\ Raise("probe")
    /\ UNCHANGED <<procs, alive, sigs, needed, shList>>
    /\ UNCHANGED <<probe, countsByWs, cfg, tmp, hist>>

\* clients = get_clients() runs (the query failing or not), and then one of
\* the two loops meets a value of another shape: aw.get on an activeWorkspace
\* that is no object, c.get on a client that is no object.  The exception
\* leaves reconcile().  A loop over an empty list raises nothing, so the two
\* queries have not both failed.
NeedMalformed ==
    /\ pc = "get_clients"
    /\ \E failed \in BOOLEAN :
          /\ ~(failed /\ "monitors" \in cyc.qfail)
          /\ cyc' = [cyc EXCEPT !.exc = "probe",
                                !.failed = NoMon,
                                !.qfail = IF failed /\ hist THEN @ \cup {"clients"} ELSE @]
    /\ pc' = ExceptTarget
    /\ ret' = ""
    /\ arg' = NoMon
    /\ p' = NoProc
    /\ i' = 0
    /\ sc' = NewStop
    /\ wsByMon' = EmptyDict
    /\ stopList' = <<>>
    /\ startLeft' = {}
    /\ sweepList' = <<>>
    /\ UNCHANGED <<procs, alive, sigs, needed, shList>>
    /\ UNCHANGED <<probe, countsByWs, cfg, tmp, hist>>

\* (variant) the test inverted: if mon_name in needed
ShouldStop_Inverted(mon, need) == mon \in need

\* if mon_name not in needed
ShouldStop(mon, need) == mon \notin need

\* for mon_name in list(procs.keys()): if mon_name not in needed: stop_waybar_for(mon_name)
RecStop ==
    /\ pc = "rec_stop"
    /\ IF stopList = <<>>
       THEN /\ EnterPhase(PhaseIndex("rec_stop") + 1, needed)
            /\ UNCHANGED <<ret, arg, p, i, cyc, sc>>
       ELSE /\ stopList' = Tail(stopList)
            /\ IF ShouldStop(Head(stopList), needed)
               THEN /\ CallStop(Head(stopList), "rec_stop")
                    /\ cyc' = [cyc EXCEPT !.stopInv = @ \cup {Head(stopList)}]
               ELSE UNCHANGED <<pc, ret, arg, p, i, cyc, sc>>
            /\ UNCHANGED <<startLeft, sweepList>>
    /\ UNCHANGED <<procs, alive, sigs, needed, wsByMon, shList>>
    /\ UNCHANGED <<probe, countsByWs, cfg, tmp, hist>>

\* for mon_name in needed: start_waybar_for(mon_name)
RecStart ==
    /\ pc = "rec_start"
    /\ IF startLeft = {}
       THEN /\ EnterPhase(PhaseIndex("rec_start") + 1, needed)
            /\ UNCHANGED <<ret, arg, p, i, cyc, sc>>
       ELSE /\ \E mon \in startLeft :
                  /\ startLeft' = startLeft \ {mon}
                  /\ CallStart(mon, "rec_start")
                  /\ cyc' = [cyc EXCEPT !.startInv = @ \cup {mon}]
            /\ UNCHANGED <<stopList, sweepList>>
    /\ UNCHANGED <<procs, alive, sigs, needed, wsByMon, shList>>
    /\ UNCHANGED <<probe, countsByWs, cfg, tmp, hist>>

\* for mon_name, p in list(procs.items()): if p.poll() is not None: procs.pop(mon_name, None)
RecSweep ==
    /\ pc = "rec_sweep"
    /\ IF sweepList = <<>>
       THEN /\ EnterPhase(PhaseIndex("rec_sweep") + 1, needed)
            /\ UNCHANGED <<procs, cyc>>
       ELSE /\ sweepList' = Tail(sweepList)
            /\ IF Head(sweepList).p \notin alive
               THEN /\ procs' = Pop(procs, Head(sweepList).mon)
                    /\ cyc' = [cyc EXCEPT !.swept = @ \cup {Head(sweepList).mon}]
               ELSE UNCHANGED <<procs, cyc>>
            /\ UNCHANGED <<pc, stopList, startLeft>>
    /\ UNCHANGED <<ret, arg, p, i, alive, sigs, needed, wsByMon, shList, sc>>
    /\ UNCHANGED <<probe, countsByWs, cfg, tmp, hist>>

\* ------------------------------------------------------- stop_waybar_for

\* (variant) p = procs[mon_name]: a missing key raises KeyError
StopGet_Subscript ==
    /\ pc = "stop_get"
    /\ IF Has(procs, arg)
       THEN /\ p' = Get(procs, arg)
            /\ pc' = "stop_poll1"
            /\ UNCHANGED <<ret, arg, i, sc, cyc, wsByMon, stopList, startLeft, sweepList>>
       ELSE Raise("stop")
    /\ UNCHANGED <<procs, alive, sigs, needed, shList>>
    /\ UNCHANGED <<probe, countsByWs, cfg, tmp, hist>>

\* p = procs.get(mon_name); if not p: return
StopGet ==
    /\ pc = "stop_get"
    /\ IF Has(procs, arg)
       THEN /\ p' = Get(procs, arg)
            /\ pc' = "stop_poll1"
            /\ UNCHANGED <<ret, arg, i, sc>>
       ELSE Return
    /\ UNCHANGED <<procs, alive, sigs, needed, wsByMon,
                   stopList, startLeft, sweepList, shList, cyc>>
    /\ UNCHANGED <<probe, countsByWs, cfg, tmp, hist>>

\* if p.poll() is None:
StopPoll1 ==
    /\ pc = "stop_poll1"
    /\ pc' = IF p \in alive THEN "stop_term" ELSE "stop_pop"
    /\ sc' = [sc EXCEPT !.last = IF p \in alive THEN "alive" ELSE "dead"]
    /\ UNCHANGED <<ret, arg, p, i, procs, alive, sigs, needed, wsByMon,
                   stopList, startLeft, sweepList, shList, cyc>>
    /\ UNCHANGED <<probe, countsByWs, cfg, tmp, hist>>

\* (variant) p.terminate() outside any try: its exception leaves the function
StopTerminate_NoTry ==
    /\ pc = "stop_term"
    /\ \/ /\ sigs' = IF p \in alive THEN sigs \cup {p} ELSE sigs
          /\ sc' = [sc EXCEPT !.term = "ok"]
          /\ i' = 0
          /\ pc' = "stop_wait"
          /\ UNCHANGED <<ret, arg, p, cyc, wsByMon, stopList, startLeft, sweepList>>
       \/ /\ Raise("stop")
          /\ UNCHANGED sigs
    /\ UNCHANGED <<procs, alive, needed, shList>>
    /\ UNCHANGED <<probe, countsByWs, cfg, tmp, hist>>

\* try: p.terminate() ... except Exception: pass
\* terminate() either delivers SIGTERM (to a process still running) and
\* returns, or raises; the except clause then falls through to the pop.
StopTerminate ==
    /\ pc = "stop_term"
    /\ \/ /\ sigs' = IF p \in alive THEN sigs \cup {p} ELSE sigs
          /\ sc' = [sc EXCEPT !.term = "ok"]
          /\ i' = 0
          /\ pc' = "stop_wait"
       \/ /\ sc' = [sc EXCEPT !.term = "raised"]
          /\ pc' = "stop_pop"
          /\ UNCHANGED <<sigs, i>>
    /\ UNCHANGED <<ret, arg, p, procs, alive, needed, wsByMon,
                   stopList, startLeft, sweepList, shList, cyc>>
    /\ UNCHANGED <<probe, countsByWs, cfg, tmp, hist>>

\* for _ in range(20): if p.poll() is not None: break; time.sleep(0.05)
StopWait ==
    /\ pc = "stop_wait"
    /\ IF p \notin alive
       THEN /\ pc' = "stop_poll2"
            /\ sc' = [sc EXCEPT !.last = "dead", !.wait = "broke"]
            /\ i' = 0
       ELSE /\ i' = IF i + 1 < WaitPolls THEN i + 1 ELSE 0
            /\ pc' = IF i + 1 < WaitPolls THEN "stop_wait" ELSE "stop_poll2"
            /\ sc' = [sc EXCEPT !.last = "alive",
                                 !.wait = IF i + 1 < WaitPolls THEN "no" ELSE "full"]
    /\ UNCHANGED <<ret, arg, p, procs, alive, sigs, needed, wsByMon,
                   stopList, startLeft, sweepList, shList, cyc>>
    /\ UNCHANGED <<probe, countsByWs, cfg, tmp, hist>>

\* (variant) p.kill() after the wait without polling again
StopPoll2_NoPoll ==
    /\ pc = "stop_poll2"
    /\ pc' = "stop_kill"
    /\ sc' = [sc EXCEPT !.last = IF p \in alive THEN "alive" ELSE "dead"]
    /\ UNCHANGED <<ret, arg, p, i, procs, alive, sigs, needed, wsByMon,
                   stopList, startLeft, sweepList, shList, cyc>>
    /\ UNCHANGED <<probe, countsByWs, cfg, tmp, hist>>

\* if p.poll() is None:   (after the wait)
StopPoll2 ==
    /\ pc = "stop_poll2"
    /\ pc' = IF p \in alive THEN "stop_kill" ELSE "stop_pop"
    /\ sc' = [sc EXCEPT !.last = IF p \in alive THEN "alive" ELSE "dead"]
    /\ UNCHANGED <<ret, arg, p, i, procs, alive, sigs, needed, wsByMon,
                   stopList, startLeft, sweepList, shList, cyc>>
    /\ UNCHANGED <<probe, countsByWs, cfg, tmp, hist>>

\* p.kill(), inside the same try: it delivers SIGKILL and returns, or raises
\* and the except clause swallows it.  The process is gone some time after
\* the signal, not at once.
StopKill ==
    /\ pc = "stop_kill"
    /\ \/ /\ sigs' = IF p \in alive THEN sigs \cup {p} ELSE sigs
          /\ sc' = [sc EXCEPT !.kill = "ok"]
       \/ /\ sc' = [sc EXCEPT !.kill = "raised"]
          /\ UNCHANGED sigs
    /\ pc' = "stop_pop"
    /\ UNCHANGED <<ret, arg, p, i, procs, alive, needed, wsByMon,
                   stopList, startLeft, sweepList, shList, cyc>>
    /\ UNCHANGED <<probe, countsByWs, cfg, tmp, hist>>

\* (variant) the whole table emptied: procs.clear()
StopPop_Clear ==
    /\ pc = "stop_pop"
    /\ procs' = <<>>
    /\ Return
    /\ UNCHANGED <<alive, sigs, needed, wsByMon,
                   stopList, startLeft, sweepList, shList, cyc>>
    /\ UNCHANGED <<probe, countsByWs, cfg, tmp, hist>>

\* procs.pop(mon_name, None), and the function returns
StopPop ==
    /\ pc = "stop_pop"
    /\ procs' = Pop(procs, arg)
    /\ Return
    /\ UNCHANGED <<alive, sigs, needed, wsByMon,
                   stopList, startLeft, sweepList, shList, cyc>>
    /\ UNCHANGED <<probe, countsByWs, cfg, tmp, hist>>

\* ------------------------------------------------------ start_waybar_for

\* (variant) the table trusted without polling: if mon_name in procs
AlreadyRunning_Cached(t, al, mon) == Has(t, mon)
\* (variant) the early return dropped
AlreadyRunning_Never(t, al, mon) == FALSE

\* mon_name in procs and procs[mon_name].poll() is None
AlreadyRunning(t, al, mon) == Has(t, mon) /\ Get(t, mon) \in al

\* if mon_name in procs and procs[mon_name].poll() is None: return
StartCheck ==
    /\ pc = "start_check"
    /\ IF AlreadyRunning(procs, alive, arg)
       THEN Return
       ELSE /\ pc' = "start_cfg"
            /\ UNCHANGED <<ret, arg, p, i, sc>>
    /\ UNCHANGED <<procs, alive, sigs, needed, wsByMon,
                   stopList, startLeft, sweepList, shList, cyc>>
    /\ UNCHANGED <<probe, countsByWs, cfg, tmp, hist>>

\* cfg = ensure_monitor_config(mon_name) begins: CACHE_DIR.mkdir(parents=True,
\* exist_ok=True).  This and each later statement of ensure_monitor_config may
\* raise (OSError), which leaves start_waybar_for and reconcile.
StartConfig ==
    /\ pc = "start_cfg"
    /\ \/ /\ pc' = "start_write"
          /\ UNCHANGED <<ret, arg, p, i, sc, cyc, wsByMon, stopList, startLeft, sweepList>>
       \/ Raise("config")
    /\ UNCHANGED <<procs, alive, sigs, needed, shList>>
    /\ UNCHANGED <<probe, countsByWs, cfg, tmp, hist>>

\* (variant) the text written to the config path itself: cfg.write_text(...)
StartWriteOpen_InPlace ==
    /\ pc = "start_write"
    /\ \/ /\ pc' = "start_writing"
          /\ cfg' = [cfg EXCEPT ![arg] = "partial"]
          /\ UNCHANGED <<ret, arg, p, i, sc, cyc, wsByMon, stopList, startLeft, sweepList>>
       \/ /\ Raise("config")
          /\ UNCHANGED cfg
    /\ UNCHANGED <<procs, alive, sigs, needed, shList>>
    /\ UNCHANGED <<probe, countsByWs, tmp, hist>>

\* tmp.write_text(json.dumps(content, indent=2)) begins: waybar-<mon>.tmp is
\* opened for writing, which creates or empties it, and is being filled.
\* (What an earlier call left in that file is gone at this point, so tmp
\* describes the running call's writing only.)
StartWriteOpen ==
    /\ pc = "start_write"
    /\ \/ /\ pc' = "start_writing"
          /\ tmp' = "partial"
          /\ UNCHANGED <<ret, arg, p, i, sc, cyc, wsByMon, stopList, startLeft, sweepList>>
       \/ /\ Raise("config")
          /\ UNCHANGED tmp
    /\ UNCHANGED <<procs, alive, sigs, needed, shList>>
    /\ UNCHANGED <<probe, countsByWs, cfg, hist>>

\* tmp.write_text(...) ends: the whole text is in the file and it is closed,
\* or the write raises part of the way.
StartWriteText ==
    /\ pc = "start_writing"
    /\ \/ /\ pc' = "start_replace"
          /\ tmp' = "full"
          /\ UNCHANGED <<ret, arg, p, i, sc, cyc, wsByMon, stopList, startLeft, sweepList>>
       \/ /\ Raise("config")
          /\ tmp' = "none"
    /\ UNCHANGED <<procs, alive, sigs, needed, shList>>
    /\ UNCHANGED <<probe, countsByWs, cfg, hist>>

\* tmp.replace(cfg): rename(2) puts the temporary file's content under the
\* config path in one step; return cfg.
StartReplace ==
    /\ pc = "start_replace"
    /\ \/ /\ pc' = "start_launch"
          /\ cfg' = [cfg EXCEPT ![arg] = tmp]
          /\ UNCHANGED <<ret, arg, p, i, sc, cyc, wsByMon, stopList, startLeft, sweepList>>
       \/ /\ Raise("config")
          /\ UNCHANGED cfg
    /\ tmp' = "none"
    /\ UNCHANGED <<procs, alive, sigs, needed, shList>>
    /\ UNCHANGED <<probe, countsByWs, hist>>

\* Instance numbers free for a new process of mon: not running, not in the table.
FreeGens(t, al, mon) ==
    {g \in 1..MaxGen : <<mon, g>> \notin al /\ (Has(t, mon) => Get(t, mon) # <<mon, g>>)}

\* p = subprocess.Popen([...], start_new_session=True): a new process runs, or
\* Popen raises (waybar not found, fork fails), which leaves reconcile
StartLaunch ==
    /\ pc = "start_launch"
    /\ \/ /\ FreeGens(procs, alive, arg) # {}
          /\ LET q == <<arg, CHOOSE g \in FreeGens(procs, alive, arg) :
                                \A h \in FreeGens(procs, alive, arg) : g <= h>>
             IN  /\ p' = q
                 /\ alive' = alive \cup {q}
          /\ cyc' = [cyc EXCEPT !.launched = @ \cup {arg}]
          /\ pc' = "start_record"
          /\ UNCHANGED <<ret, arg, i, sc, wsByMon, stopList, startLeft, sweepList>>
       \/ /\ Raise("launch")
          /\ UNCHANGED alive
    /\ UNCHANGED <<procs, sigs, needed, shList>>
    /\ UNCHANGED <<probe, countsByWs, cfg, tmp, hist>>

\* procs[mon_name] = p, and the function returns
StartRecord ==
    /\ pc = "start_record"
    /\ procs' = Put(procs, arg, p)
    /\ Return
    /\ UNCHANGED <<alive, sigs, needed, wsByMon,
                   stopList, startLeft, sweepList, shList, cyc>>
    /\ UNCHANGED <<probe, countsByWs, cfg, tmp, hist>>

\* -------------------------------------------------------------- _shutdown

InHandler == pc = "sh_loop" \/ ret = "sh_loop"

\* SIGINT or SIGTERM arrives: Python runs _shutdown between two bytecodes of
\* whatever is running (the handler itself included).  The handler ends in
\* SystemExit, which no `except Exception` catches, so the interrupted frames
\* never run again.    for mon in list(procs.keys()):
Signal ==
    /\ pc \notin {"exited", "no_base", "idle"}
    /\ ret # "idle"
    /\ pc' = "sh_loop"
    /\ shList' = Keys(procs)
    /\ ret' = ""
    /\ arg' = NoMon
    /\ p' = NoProc
    /\ i' = 0
    /\ sc' = NewStop
    /\ wsByMon' = EmptyDict
    /\ stopList' = <<>>
    /\ startLeft' = {}
    /\ sweepList' = <<>>
    /\ needed' = {}
    /\ cyc' = NoCycle
    /\ UNCHANGED <<procs, alive, sigs>>
    /\ tmp' = "none"
    /\ UNCHANGED <<probe, countsByWs, cfg, hist>>

\* (variant) the handler raises SystemExit without stopping anything
ShLoop_ExitOnly ==
    /\ pc = "sh_loop"
    /\ pc' = "exited"
    /\ UNCHANGED <<ret, arg, p, i, sc, shList>>
    /\ UNCHANGED <<procs, alive, sigs, needed, wsByMon,
                   stopList, startLeft, sweepList, cyc>>
    /\ UNCHANGED <<probe, countsByWs, cfg, tmp, hist>>

\* for mon in list(procs.keys()): stop_waybar_for(mon);  raise SystemExit
ShLoop ==
    /\ pc = "sh_loop"
    /\ IF shList = <<>>
       THEN /\ pc' = "exited"
            /\ UNCHANGED <<ret, arg, p, i, sc, shList>>
       ELSE /\ CallStop(Head(shList), "sh_loop")
            /\ shList' = Tail(shList)
    /\ UNCHANGED <<procs, alive, sigs, needed, wsByMon,
                   stopList, startLeft, sweepList, cyc>>
    /\ UNCHANGED <<probe, countsByWs, cfg, tmp, hist>>

\* ------------------------------------------------------------ environment

\* A waybar process exits: by itself, or on a signal it was sent.
ProcessExit ==
    /\ pc \notin {"exited", "no_base"}
    /\ \E q \in alive :
          /\ alive' = alive \ {q}
          /\ sigs' = sigs \ {q}
    /\ UNCHANGED <<pc, ret, arg, p, i, procs, needed, wsByMon,
                   stopList, startLeft, sweepList, shList, cyc, sc>>
    /\ UNCHANGED <<probe, countsByWs, cfg, tmp, hist>>

\* ---------------------------------------------------------- specifications

\* The statements of the main thread and of the handler.
Step ==
    \/ Preflight
    \/ GetMonitorsStep
    \/ GetClientsStep
    \/ ProbeMalformed
    \/ NeedMalformed
    \/ RecStop
    \/ RecStart
    \/ RecSweep
    \/ Backoff
    \/ Sleep
    \/ StopGet
    \/ StopPoll1
    \/ StopTerminate
    \/ StopWait
    \/ StopPoll2
    \/ StopKill
    \/ StopPop
    \/ StartCheck
    \/ StartConfig
    \/ StartWriteOpen
    \/ StartWriteText
    \/ StartReplace
    \/ StartLaunch
    \/ StartRecord
    \/ ShLoop

Next == Step \/ Signal \/ ProcessExit

\* The daemon: python autobar.py.
Spec == Init /\ [][Next]_vars

\* The daemon, with the failed queries of each cycle recorded in cyc.
InitHist ==
    /\ pc = "preflight"
    /\ ret = ""
    /\ arg = NoMon
    /\ p = NoProc
    /\ i = 0
    /\ procs = <<>>
    /\ alive = {}
    /\ sigs = {}
    /\ needed = {}
    /\ wsByMon = EmptyDict
    /\ stopList = <<>>
    /\ startLeft = {}
    /\ sweepList = <<>>
    /\ shList = <<>>
    /\ cyc = NoCycle
    /\ sc = NewStop
    /\ probe = NoProbe
    /\ countsByWs = EmptyDict
    /\ cfg = NoFiles
    /\ tmp = "none"
    /\ hist = TRUE

SpecHist == InitHist /\ [][Next]_vars

\* The daemon under the scheduling Python gives it: the main thread (or the
\* handler that replaced it) always gets to run its next statement.  Signals
\* and process exits are the environment's and need never happen.
SpecFair == Spec /\ WF_vars(Step)

\* The module imported and its two operations called directly, in any order,
\* on any monitor, as a test of start_waybar_for / stop_waybar_for would.
InitOps ==
    /\ pc = "idle"
    /\ ret = ""
    /\ arg = NoMon
    /\ p = NoProc
    /\ i = 0
    /\ procs = <<>>
    /\ alive = {}
    /\ sigs = {}
    /\ needed = {}
    /\ wsByMon = EmptyDict
    /\ stopList = <<>>
    /\ startLeft = {}
    /\ sweepList = <<>>
    /\ shList = <<>>
    /\ cyc = NoCycle
    /\ sc = NewStop
    /\ probe = NoProbe
    /\ countsByWs = EmptyDict
    /\ cfg = NoFiles
    /\ tmp = "none"
    /\ hist = FALSE

\* start_waybar_for(mon) called from outside the loop
OpsStart ==
    /\ pc = "idle"
    /\ \E mon \in Outputs :
          /\ CallStart(mon, "idle")
          /\ cyc' = [NewCycle(procs, alive) EXCEPT !.startInv = {mon}]
    /\ UNCHANGED <<procs, alive, sigs, needed, wsByMon,
                   stopList, startLeft, sweepList, shList>>
    /\ UNCHANGED <<probe, countsByWs, cfg, tmp, hist>>

\* stop_waybar_for(mon) called from outside the loop
OpsStop ==
    /\ pc = "idle"
    /\ \E mon \in Outputs :
          /\ CallStop(mon, "idle")
          /\ cyc' = [NewCycle(procs, alive) EXCEPT !.stopInv = {mon}]
    /\ UNCHANGED <<procs, alive, sigs, needed, wsByMon,
                   stopList, startLeft, sweepList, shList>>
    /\ UNCHANGED <<probe, countsByWs, cfg, tmp, hist>>

NextOps ==
    \/ OpsStart
    \/ OpsStop
    \/ StopGet
    \/ StopPoll1
    \/ StopTerminate
    \/ StopWait
    \/ StopPoll2
    \/ StopKill
    \/ StopPop
    \/ StartCheck
    \/ StartConfig
    \/ StartWriteOpen
    \/ StartWriteText
    \/ StartReplace
    \/ StartLaunch
    \/ StartRecord
    \/ ProcessExit

SpecOps == InitOps /\ [][NextOps]_vars

\* monitors_needing_waybar() called once the compositor answers probe
NeedCall ==
    /\ pc \in {"need_call", "need_again"}
    /\ wsByMon' = WsByMon(GetMonitors(probe.mons), EmptyDict)
    /\ countsByWs' = CountsByWs(GetClients(probe.clients), EmptyDict)
    /\ needed' = Need(wsByMon', countsByWs')
    /\ pc' = "need_done"
    /\ UNCHANGED <<ret, arg, p, i, procs, alive, sigs, stopList, startLeft,
                   sweepList, shList, cyc, sc, probe, cfg, tmp, hist>>

\* One more window opens in the compositor, after which the function is
\* called again (its previous results are kept for comparison).
NeedAddClient ==
    /\ pc = "need_done"
    /\ probe.clients.ok
    /\ Len(probe.clients.data) < MaxClients
    /\ \E c \in ClientRecords :
          probe' = [probe EXCEPT !.clients.data = Append(@, c)]
    /\ pc' = "need_again"
    /\ UNCHANGED <<ret, arg, p, i, procs, alive, sigs, needed, wsByMon, stopList,
                   startLeft, sweepList, shList, cyc, sc, countsByWs, cfg, tmp, hist>>

\* monitors_needing_waybar as a function of the two hyprctl answers.
InitNeed ==
    /\ pc = "need_call"
    /\ ret = ""
    /\ arg = NoMon
    /\ p = NoProc
    /\ i = 0
    /\ procs = <<>>
    /\ alive = {}
    /\ sigs = {}
    /\ needed = {}
    /\ wsByMon = EmptyDict
    /\ stopList = <<>>
    /\ startLeft = {}
    /\ sweepList = <<>>
    /\ shList = <<>>
    /\ cyc = NoCycle
    /\ sc = NewStop
    /\ probe \in [mons : MonitorReplies, clients : ClientReplies]
    /\ countsByWs = EmptyDict
    /\ cfg = NoFiles
    /\ tmp = "none"
    /\ hist = FALSE

NextNeed == NeedCall \/ NeedAddClient

SpecNeed == InitNeed /\ [][NextNeed]_vars

\* ------------------------------------------------------------------ claims

StopPcs == {"stop_get", "stop_poll1", "stop_term", "stop_wait",
            "stop_poll2", "stop_kill", "stop_pop"}
StartPcs == {"start_check", "start_cfg", "start_write", "start_writing",
             "start_replace", "start_launch", "start_record"}

\* reconcile() has returned normally and main is at its poll sleep.
CycleDone == pc = "sleep" /\ cyc.exc = "none"
\* The cycle is over: reconcile() returned or raised.
CycleEnded == pc \in {"sleep", "backoff"}
\* reconcile() is past its stop loop.
PastStopLoop == pc \in {"rec_start", "rec_sweep"} \cup StartPcs \/ CycleDone

\* C1: in a cycle, every monitor that was in the table at the cycle's start
\* and is not in the cycle's needed set has been stopped and has no entry once
\* the stop loop is over; after a cycle that completes without an exception
\* the table holds no monitor outside needed.
C1_UndesiredStopped ==
    /\ PastStopLoop =>
          \A mon \in cyc.keys0 \ needed : mon \in cyc.stopInv /\ ~Has(procs, mon)
    /\ CycleDone => KeySet(procs) \subseteq needed

\* A cycle completed in which a monitor of the table was not needed.
C1_Witness ==
    /\ CycleDone
    /\ cyc.keys0 \ needed # {}
    /\ cyc.stopInv # {}

\* C2: in every cycle, start is invoked for every monitor of the cycle's
\* needed set (stated for a cycle that is over, however it ended).
C2_StartForEveryNeeded ==
    CycleEnded => needed \subseteq cyc.startInv

\* C3: within a cycle no stop is running or still to come once a start has
\* been invoked: every monitor that left the needed set has had its stop
\* called, and returned, before the first start.
C3_StopsBeforeStarts ==
    cyc.startInv # {} =>
        /\ pc # "rec_stop"
        /\ ret # "rec_stop"
        /\ (cyc.keys0 \ needed) \subseteq cyc.stopInv

\* A start is running for a monitor new to the table in a cycle that stopped
\* another monitor.
C3_Witness ==
    /\ pc = "start_check"
    /\ ret = "rec_start"
    /\ arg \notin cyc.keys0
    /\ cyc.stopInv # {}
    /\ arg \notin cyc.stopInv

\* C4: a start called for a monitor whose entry's process is running at the
\* moment of the call (a second start in succession, no stop in between)
\* returns at once: nothing is launched, the table is unchanged and holds one
\* entry for the monitor.
C4_StartIdempotent ==
    [][(/\ pc = "start_check"
        /\ pc' # "start_check"
        /\ Has(procs, arg)
        /\ Get(procs, arg) \in alive)
       => (/\ pc' = ret
           /\ procs' = procs
           /\ alive' = alive
           /\ cyc'.launched = {}
           /\ Entries(procs', arg) = 1)]_vars

\* A start called on a monitor whose process was running has returned: no
\* launch, no exception, the entry still there.
C4_Witness ==
    /\ pc = "idle"
    /\ cyc.startInv # {}
    /\ cyc.startInv \subseteq cyc.keys0
    /\ cyc.launched = {}
    /\ cyc.exc = "none"
    /\ \A mon \in cyc.startInv : Has(procs, mon) /\ Get(procs, mon) \in alive

\* C5: stop never raises and always removes the entry: whichever way a stop
\* call ends (process already gone, SIGTERM obeyed, SIGTERM ignored,
\* terminate() or kill() failing), it ends by returning to its caller with no
\* exception raised and no entry for the monitor.
C5_StopNeverRaises ==
    [][(pc \in StopPcs /\ pc' \notin StopPcs)
       => (/\ pc' = ret
           /\ cyc'.exc = "none"
           /\ ~Has(procs', arg))]_vars

\* A stop whose kill() failed on a process still running is about to return.
C5_Witness ==
    /\ pc = "stop_pop"
    /\ sc.kill = "raised"
    /\ p \in alive
    /\ Has(procs, arg)

\* C6: the wait loop runs at most WaitPolls times; kill() is called only
\* after terminate() returned, the whole wait passed and the poll after it
\* found the process running; and a stop that ends has called kill() exactly
\* when that poll found the process running.
C6_Escalation ==
    /\ i < WaitPolls
    /\ pc = "stop_wait" => sc.term = "ok" /\ sc.kill = "no"
    /\ (pc = "stop_kill" \/ sc.kill # "no") =>
          sc.term = "ok" /\ sc.wait = "full" /\ sc.last = "alive"
    /\ pc = "stop_pop" =>
          (sc.kill # "no" <=> (sc.term = "ok" /\ sc.wait # "no" /\ sc.last = "alive"))

\* A stop that sent SIGKILL after a full wait is about to return.
C6_Witness ==
    /\ pc = "stop_pop"
    /\ sc.term = "ok"
    /\ sc.wait = "full"
    /\ sc.kill = "ok"

\* C7: a stop called for a monitor with no entry returns at once: no
\* exception, no signal sent, no process and no table entry touched.
C7_StopNoEntryNoop ==
    [][(pc = "stop_get" /\ ~Has(procs, arg) /\ pc' # "stop_get")
       => (/\ pc' = ret
           /\ procs' = procs
           /\ alive' = alive
           /\ sigs' = sigs
           /\ cyc'.exc = "none")]_vars

\* A stop called for a monitor with no entry has returned, other monitors'
\* entries being in the table.
C7_Witness ==
    /\ pc = "idle"
    /\ cyc.stopInv # {}
    /\ cyc.stopInv \cap cyc.keys0 = {}
    /\ cyc.exc = "none"
    /\ procs # <<>>
    /\ KeySet(procs) = cyc.keys0

\* Monitors whose table entry held an exited process when the cycle began.
ExitedAtStart == {h[1] : h \in cyc.dead0}

\* C8 as stated: an entry whose process exited between cycles is removed by
\* the next cycle's sweep.
C8_SweepRemovesExited ==
    CycleDone => ExitedAtStart \subseteq cyc.swept

\* C8, amended: after the next cycle that completes without an exception no
\* entry holds a process that had exited between cycles, and where the
\* monitor is needed that cycle's start launched a new process for it (the
\* stop loop or the start replaces the entry before the sweep is reached).
C8_ExitedEntryReplaced ==
    CycleDone =>
        /\ \A h \in cyc.dead0 : \A k \in 1..Len(procs) : procs[k].p # h
        /\ \A mon \in ExitedAtStart \cap needed : mon \in cyc.launched

\* A cycle completed that began with the exited process of a needed monitor
\* in the table, and the monitor has a running process again.
C8_Witness ==
    /\ CycleDone
    /\ \E mon \in ExitedAtStart \cap needed :
          /\ mon \in cyc.launched
          /\ mon \notin cyc.swept
          /\ Has(procs, mon)
          /\ Get(procs, mon) \in alive

\* C9: after a start that failed (the config write or the launch raised) the
\* table holds no entry for that monitor, whatever it held before the call.
C9_FailedStartNoEntry ==
    (pc = "backoff" /\ cyc.exc \in {"config", "launch"}) => ~Has(procs, cyc.failed)

\* The signal handler has taken over (or has ended the process).
Shutdown == InHandler \/ pc = "exited"
\* main is inside its `while True` loop.
InLoop == pc \notin {"preflight", "no_base", "exited", "idle"} /\ ~InHandler

\* C10: an exception raised in a cycle lands on main's backoff sleep, which
\* leads to the poll sleep; the loop is left only by a shutdown signal; and
\* wherever the cycle stands another cycle begins, unless a shutdown signal
\* arrives first.
C10_LoopResumes ==
    /\ [][(cyc.exc = "none" /\ cyc'.exc # "none") => pc' = "backoff"]_vars
    /\ [][(pc = "backoff" /\ pc' # "backoff") => (pc' = "sleep" \/ Shutdown')]_vars
    /\ [][(InLoop /\ ~InLoop') => Shutdown']_vars
    /\ [](InLoop => <>(pc = "get_monitors" \/ Shutdown))

\* A cycle raised, the backoff sleep is over and main is at the poll sleep
\* before its next cycle.
C10_Witness ==
    /\ pc = "sleep"
    /\ cyc.exc = "launch"

\* Monitors the handler's loop has still to stop, the one being stopped included.
ShPending ==
    {shList[k] : k \in 1..Len(shList)} \cup (IF pc \in StopPcs THEN {arg} ELSE {})

\* C11: once a shutdown signal has arrived, every entry of the table is
\* stopped before the process exits: each entry is queued in the handler's
\* loop or being stopped, the table changes only by a stop's pop, no
\* exception leaves a stop, the table is empty at exit, and the handler does
\* reach the exit (unless shutdown signals keep arriving without end, each
\* one starting the handler afresh).
C11_ShutdownStopsAll ==
    /\ [](InHandler => KeySet(procs) \subseteq ShPending)
    /\ [](pc = "exited" => procs = <<>>)
    /\ [][(InHandler /\ procs' # procs)
          => (pc = "stop_pop" /\ procs' = Pop(procs, arg) /\ InHandler')]_vars
    /\ [][(InHandler /\ ~InHandler') => pc' = "exited"]_vars
    /\ ([]<><<Signal>>_vars \/ [](InHandler => <>(pc = "exited")))

\* The process has exited through the handler with the table empty, two
\* waybars still running and one of them holding a signal a stop sent it.
C11_Witness ==
    /\ pc = "exited"
    /\ procs = <<>>
    /\ Cardinality(alive) >= 2
    /\ sigs # {}

\* The step gives monitor mon an entry it had not, or another handle.
Inserted(mon) ==
    /\ Has(procs', mon)
    /\ IF Has(procs, mon) THEN Get(procs', mon) # Get(procs, mon) ELSE TRUE
\* The step takes monitor mon's entry away.
Removed(mon) == Has(procs, mon) /\ ~Has(procs', mon)

\* C12: an entry is put into the table only by the last statement of a start
\* that reconcile's start loop called in this cycle, for a monitor of the
\* needed set this cycle computed, the handle being the process that start
\* launched; an entry leaves the table only by a stop's pop of that monitor
\* or by the sweep.
C12_EntriesOnlyForNeeded ==
    [][\A mon \in Outputs :
          /\ Inserted(mon) =>
                /\ pc = "start_record"
                /\ ret = "rec_start"
                /\ arg = mon
                /\ mon \in needed
                /\ mon \in cyc.startInv
                /\ mon \in cyc.launched
                /\ Get(procs', mon) = p
          /\ Removed(mon) =>
                \/ pc = "stop_pop" /\ arg = mon
                \/ pc = "rec_sweep" /\ mon \in cyc'.swept]_vars

\* In one cycle a stop removed the entry of a monitor no longer needed and a
\* start has put in an entry for a needed monitor that had none.
C12_Witness ==
    /\ pc = "rec_start"
    /\ cyc.stopInv # {}
    /\ \E mon \in cyc.launched \cap needed :
          /\ mon \notin cyc.keys0
          /\ Has(procs, mon)
          /\ Get(procs, mon) \in alive

\* A window that counts: it has a workspace id, is mapped and is not hidden.
Visible(c) == c.workspace # <<>> /\ c.mapped /\ ~c.hidden
\* Visible windows of the clients answer on workspace ws.
VisibleTally(clients, ws) ==
    Cardinality({k \in 1..Len(clients) : Visible(clients[k]) /\ clients[k].workspace = <<ws>>})
\* Positions of the monitors answer that are retained: enabled, with an
\* active workspace id.
Retained(mons) ==
    {k \in 1..Len(mons) : ~mons[k].disabled /\ mons[k].activeWorkspace # <<>>}
\* The retained monitors whose active workspace shows a window (an answer
\* lists a monitor once; were a name listed twice, its last retained record
\* is the monitor).
DesiredOf(mons, clients) ==
    {MonName(mons[k]) :
        k \in {j \in Retained(mons) :
                  /\ \A l \in Retained(mons) : l > j => MonName(mons[l]) # MonName(mons[j])
                  /\ VisibleTally(clients, mons[j].activeWorkspace[1]) > 0}}

\* C13: what monitors_needing_waybar returns is exactly the retained
\* monitors whose active workspace has a visible-window tally above zero, the
\* tally of a workspace being the number of windows on it that are mapped and
\* not hidden; it is empty when every retained monitor's active workspace has
\* tally zero; and calling it again after a hidden, unmapped or workspace-less
\* window was added gives the same tallies and the same set.
C13_DesiredSet ==
    /\ [](pc = "need_done" =>
            /\ needed = DesiredOf(probe.mons.data, probe.clients.data)
            /\ \A ws \in WsIds :
                  DictGet0(countsByWs, ws) = VisibleTally(probe.clients.data, ws)
            /\ (\A k \in Retained(probe.mons.data) :
                    VisibleTally(probe.clients.data,
                                 probe.mons.data[k].activeWorkspace[1]) = 0)
                  => needed = {})
    /\ [][(/\ pc = "need_again"
            /\ ~Visible(probe.clients.data[Len(probe.clients.data)]))
          => (countsByWs' = countsByWs /\ needed' = needed)]_vars

\* Of two monitors one was found to need its bar, then a window that does
\* not count was added and the function is about to be called again.
C13_Witness ==
    /\ pc = "need_again"
    /\ Len(probe.mons.data) = 2
    /\ Cardinality(Retained(probe.mons.data)) = 2
    /\ Cardinality(needed) = 1
    /\ ~Visible(probe.clients.data[Len(probe.clients.data)])

\* reconcile() is past its two queries, one of which failed (run_json
\* returned None), the other's reply being a list of objects.
AfterFailedQuery ==
    /\ cyc.qfail # {}
    /\ cyc.exc # "probe"
    /\ pc \notin {"get_monitors", "get_clients"}
    /\ InLoop

\* In a cycle with a failed query needed is empty, nothing raises, no start
\* is called and every monitor of the table is stopped and loses its entry.
C14_EmptyOnFailure ==
    AfterFailedQuery =>
        /\ needed = {}
        /\ cyc.exc = "none"
        /\ cyc.startInv = {}
        /\ cyc.launched = {}
        /\ PastStopLoop => (cyc.keys0 \subseteq cyc.stopInv /\ procs = <<>>)

\* The cycle after one with a failed query, its own queries having
\* succeeded, calls start for every monitor of its needed set.
C14_Recovery ==
    (cyc.afterFail /\ cyc.qfail = {} /\ CycleEnded) => needed \subseteq cyc.startInv

\* C14: a failed query (monitors or clients) gives an empty needed set for
\* its cycle without raising, the cycle stops every process of the table and
\* starts none; and the next cycle whose queries succeed starts every monitor
\* its own data makes needed.
C14_QueryFailure == C14_EmptyOnFailure /\ C14_Recovery

\* C15: the config file of a monitor never holds a partial text, whoever
\* reads it and whenever (a waybar being launched or still running
\* included): it changes only by the rename of a temporary file that holds
\* the whole text; a start reaches its launch only through that rename, so
\* every running waybar was given a complete file; and a start that finds
\* its process running touches neither file.
C15_AtomicConfig ==
    /\ [](\A mon \in Outputs : cfg[mon] # "partial")
    /\ [](pc \in {"start_launch", "start_record"} => cfg[arg] = "full")
    /\ [](\A q \in alive : cfg[q[1]] = "full")
    /\ [][cfg' # cfg =>
            /\ pc = "start_replace"
            /\ tmp = "full"
            /\ cfg' = [cfg EXCEPT ![arg] = "full"]]_vars
    /\ [][(pc # "start_launch" /\ pc' = "start_launch") =>
            (pc = "start_replace" /\ tmp = "full" /\ cfg'[arg] = "full")]_vars
    /\ [][(pc = "start_check" /\ AlreadyRunning(procs, alive, arg)) =>
            (cfg' = cfg /\ tmp' = tmp /\ pc' \in {pc, ret, "sh_loop"})]_vars

\* A start is part of the way through writing the temporary file for a
\* monitor whose config file holds the text of an earlier start, a waybar
\* launched with that file still running.
C15_Witness ==
    /\ pc = "start_writing"
    /\ tmp = "partial"
    /\ cfg[arg] = "full"
    /\ \E q \in alive : q[1] = arg

\* C16: when the base configuration is missing at startup main prints its
\* message and returns at once: the loop is never entered, so no query was
\* made, no file written, no process started, stopped or signalled, and the
\* run takes no further step; the loop is entered from the preflight only
\* when the file exists.
C16_Preflight ==
    /\ [](pc = "no_base" =>
            /\ cyc = NoCycle
            /\ needed = {}
            /\ wsByMon = EmptyDict
            /\ procs = <<>>
            /\ alive = {}
            /\ sigs = {}
            /\ cfg = NoFiles
            /\ tmp = "none")
    /\ [][pc' = "no_base" => pc = "preflight"]_vars
    /\ [][pc # "no_base"]_vars
    /\ [][(pc = "preflight" /\ pc' # "preflight")
          => pc' \in {"no_base", "get_monitors", "sh_loop"}]_vars

\* main has returned from its preflight check, nothing done.
C16_Witness ==
    /\ pc = "no_base"
    /\ cyc = NoCycle
    /\ cfg = NoFiles
    /\ procs = <<>>

\* Monitor mon has a table entry whose process is running.
Live(mon) == Has(procs, mon) /\ Get(procs, mon) \in alive

\* C17: a monitor that every cycle finds needed, and whose own start never
\* raises, eventually has an entry with a running process, whatever happens
\* to the starts of the other monitors (stated for a run that is not shut
\* down and passed its preflight, and counting a waybar that was launched
\* and exited by itself as the monitor having been served): sooner or later
\* the monitor is running or was launched, or a cycle ends without it in
\* needed, or its own start raises.
C17_NoStarvation ==
    \A mon \in Outputs :
        <>(\/ Live(mon)
           \/ mon \in cyc.launched
           \/ CycleEnded /\ mon \notin needed
           \/ cyc.failed = mon
           \/ Shutdown
           \/ pc = "no_base")

\* C18: when the process has exited through the signal handler, every waybar
\* it launched that is still running has been sent SIGTERM (or SIGKILL),
\* wherever the signal interrupted the cycle.
C18_ExitSignalsAll ==
    pc = "exited" => alive \subseteq sigs

\* C19: at every moment at most one waybar launched for a monitor is
\* running.
C19_OnePerOutput ==
    \A mon \in Outputs : Cardinality({q \in alive : q[1] = mon}) <= 1

\* The running waybars of monitor mon, and those that were sent a signal.
AliveOf(al, mon) == {q \in al : q[1] = mon}
\* The step leaves monitor mon alone: its entry (there or not, and the
\* handle) and its config file are as before, none of its processes is sent
\* a signal and none is launched.
Untouched(mon) ==
    /\ Has(procs', mon) = Has(procs, mon)
    /\ Has(procs, mon) => Get(procs', mon) = Get(procs, mon)
    /\ AliveOf(sigs', mon) \subseteq AliveOf(sigs, mon)
    /\ AliveOf(alive', mon) \subseteq AliveOf(alive, mon)
    /\ cfg'[mon] = cfg[mon]

\* C20: every step taken while start_waybar_for(mon) or stop_waybar_for(mon)
\* runs leaves every other monitor untouched; and a step of the sweep
\* removes only entries whose process has exited, keeps every entry whose
\* process is running, with its handle, and signals and launches nothing.
C20_Frame ==
    /\ [][(pc \in StartPcs \cup StopPcs) =>
            (\A mon \in Outputs \ {arg} : Untouched(mon))]_vars
    /\ [][pc = "rec_sweep" =>
            /\ \A mon \in Outputs :
                  /\ Removed(mon) => Get(procs, mon) \notin alive
                  /\ Live(mon) => (Has(procs', mon) /\ Get(procs', mon) = Get(procs, mon))
                  /\ ~Inserted(mon)
            /\ sigs' \subseteq sigs
            /\ alive' \subseteq alive]_vars

\* A stop has signalled its monitor's process and is about to remove the
\* entry, while the other monitor has an entry with a running process that
\* was sent nothing.
C20_Witness ==
    /\ pc = "stop_pop"
    /\ p \in sigs
    /\ \E mon \in Outputs \ {arg} : Live(mon) /\ Get(procs, mon) \notin sigs

====
